---- MODULE Spec2Model ----
(***************************************************************************)
(* A model of risk_model_tool: the fit/apply preprocessing components      *)
(* (Cap, Floor, MissingImpute, Woe, Scale), the Tactic orchestrator of     *)
(* preprocess.py, and the greedy correlation filter of data_filter.py.     *)
(*                                                                         *)
(* Numbers are exact rationals n/d (d > 0, lowest terms), so that means,   *)
(* percentiles and min-max ratios are computed as the code computes them.  *)
(* A table cell is a record [k, n, d, s]:                                  *)
(*   k = "null"    a missing value (None / NaN)                            *)
(*   k = "num"     the number n/d                                          *)
(*   k = "str"     the text s, which spells no number                      *)
(*   k = "numstr"  a text that spells the number n/d                       *)
(* Normalize is not modelled (its statistic is a square root).             *)
(***************************************************************************)
EXTENDS Integers, Sequences, FiniteSets, TLC

VARIABLES
    corr,       \* filt_corr: the matrix being scanned (mutated in place)
    corr_in,    \* filt_corr: the matrix as the caller passed it
    thresh,     \* filt_corr: the threshold
    col,        \* filt_corr: position of the outer loop (column)
    idx,        \* filt_corr: position of the inner loop (row)
    picked,     \* filt_corr: labels of the returned matrix
    fpc,        \* filt_corr: "idle" | "scan" | "return" | "done"
    inst,       \* a transform component instance (config, reference, apply_list)
    df_master,  \* the dataset the caller holds (fit reads it, apply mutates it)
    df_in,      \* the dataset as it was when the last apply was called
    ret,        \* what the last call returned or raised
    tactic,     \* the Tactic objects: "orig" and the one built from a reload
    out,        \* per Tactic, what its apply returned or raised ("again":
                \* what a second apply of the fitted Tactic returned)
    chk         \* what the last check_config_file / fit call returned or raised

corrVars == <<corr, corr_in, thresh, col, idx, picked, fpc>>

compVars == <<inst, df_master, df_in, ret>>

tacVars == <<tactic, out, chk>>

vars == <<corrVars, compVars, tacVars>>

----------------------------------------------------------------------------
(* Bounds of the model.                                                    *)

\* number of variables of the correlation matrix (labels 1..NVars, in
\* row/column order; A, B, C of the worked example are 1, 2, 3)
NVars == 3

\* number of rows of the datasets the components and the Tactic are run on
NRows == 2

\* number of rows of the datasets of the mean-imputation runs
MeanRows == 4

----------------------------------------------------------------------------
(* Exact arithmetic on cells.                                              *)

Abs(i) == IF i < 0 THEN -i ELSE i

RECURSIVE GCD(_, _)
GCD(a, b) == IF b = 0 THEN a ELSE GCD(b, a % b)

Null == [k |-> "null", n |-> 0, d |-> 1, s |-> ""]

Str(t) == [k |-> "str", n |-> 0, d |-> 1, s |-> t]

\* the number n/d, d > 0, in lowest terms
Num(n, d) ==
    LET g == GCD(Abs(n), d)
    IN  [k |-> "num", n |-> n \div g, d |-> d \div g, s |-> ""]

\* a text spelling the number n/d
NumStr(n, d) == [Num(n, d) EXCEPT !.k = "numstr"]

N(i) == Num(i, 1)

IsNull(v) == v.k = "null"

IsNum(v) == v.k = "num"

Lt(a, b) == a.n * b.d < b.n * a.d

Gt(a, b) == Lt(b, a)

Add(a, b) == Num(a.n * b.d + b.n * a.d, a.d * b.d)

Sub(a, b) == Num(a.n * b.d - b.n * a.d, a.d * b.d)

Mul(a, b) == Num(a.n * b.n, a.d * b.d)

\* a / b for b # 0
Div(a, b) ==
    IF b.n > 0 THEN Num(a.n * b.d, a.d * b.n)
    ELSE Num(-(a.n * b.d), -(a.d * b.n))

----------------------------------------------------------------------------
(* data_filter.py: filt_corr.  Correlations are held in hundredths, so the *)
(* sentinel -1 of the code is -100 here.                                   *)

Sentinel == -100

Labels == 1 .. NVars

\* transformed correlations gen_corr can produce (|x|, and 0 for x = 1)
CorrValues == {0, 20, 30, 95}

ThreshValues == {0, 25, 90}

\* gen_corr: symmetric, with the transformed diagonal 0
SymmetricMatrices ==
    {m \in [Labels -> [Labels -> CorrValues]] :
        \A i, j \in Labels : m[i][j] = m[j][i] /\ m[i][i] = 0}

\* an elimination that writes the sentinel to the row only
MarkEliminatedRow(m, i) ==
    [r \in DOMAIN m |-> [c \in DOMAIN m |->
        IF r = i THEN Sentinel ELSE m[r][c]]]

\* corr.loc[i, :] = -1 ; corr.loc[:, i] = -1
MarkEliminated(m, i) ==
    [r \in DOMAIN m |-> [c \in DOMAIN m |->
        IF r = i \/ c = i THEN Sentinel ELSE m[r][c]]]

\* picked = (corr != -1).any(): the columns holding a cell that is not -1
Picked(m) == {c \in DOMAIN m : \E r \in DOMAIN m : m[r][c] # Sentinel}

\* a scan that eliminates the column's variable instead of the row's
FiltCellColumn(m, i, c, t) ==
    IF m[i][c] > t THEN MarkEliminated(m, c) ELSE m

\* the body of the two loops, for the cell (idx, col)
FiltCell(m, i, c, t) ==
    IF m[i][c] > t THEN MarkEliminated(m, i) ELSE m

\* for idx in corr.index, within one column
RECURSIVE ScanRows(_, _, _, _)
ScanRows(m, rows, c, t) ==
    IF rows = {} THEN m
    ELSE LET i == CHOOSE x \in rows : \A y \in rows : x <= y
         IN  ScanRows(FiltCell(m, i, c, t), rows \ {i}, c, t)

\* for col in corr.columns
RECURSIVE ScanCols(_, _, _)
ScanCols(m, cols, t) ==
    IF cols = {} THEN m
    ELSE LET c == CHOOSE x \in cols : \A y \in cols : x <= y
         IN  ScanCols(ScanRows(m, DOMAIN m, c, t), cols \ {c}, t)

\* corr.loc[picked, picked]
Restrict(m, p) == [r \in p |-> [c \in p |-> m[r][c]]]

\* filt_corr as a function of its arguments: the matrix it returns
FiltCorr(m, t) ==
    LET scanned(s) == Restrict(s, Picked(s))
    IN  scanned(ScanCols(m, DOMAIN m, t))

FiltCorrInit ==
    /\ corr_in \in SymmetricMatrices
    /\ corr = corr_in
    /\ thresh \in ThreshValues
    /\ col = 1
    /\ idx = 1
    /\ picked = {}
    /\ fpc = "scan"
    /\ inst = [kind |-> "none"] /\ df_master = <<>> /\ df_in = <<>>
    /\ ret = [call |-> "new", err |-> "none", val |-> <<>>]
    /\ tactic = <<>> /\ out = <<>>
    /\ chk = [call |-> "new", err |-> "none", val |-> <<>>]

\* one iteration of the inner loop, moving to the next cell
FiltStep ==
    /\ fpc = "scan"
    /\ corr' = FiltCell(corr, idx, col, thresh)
    /\ IF idx < NVars
         THEN idx' = idx + 1 /\ col' = col /\ fpc' = "scan"
         ELSE IF col < NVars
           THEN idx' = 1 /\ col' = col + 1 /\ fpc' = "scan"
           ELSE idx' = idx /\ col' = col /\ fpc' = "return"
    /\ UNCHANGED <<corr_in, thresh, picked, compVars, tacVars>>

\* picked = (corr != -1).any(); corr = corr.loc[picked, picked]; return
FiltReturn ==
    /\ fpc = "return"
    /\ picked' = Picked(corr)
    /\ fpc' = "done"
    /\ UNCHANGED <<corr, corr_in, thresh, col, idx, compVars, tacVars>>

CorrNext == FiltStep \/ FiltReturn

SpecCorr == FiltCorrInit /\ [][CorrNext]_vars

----------------------------------------------------------------------------
(* Tables and datasets.                                                    *)
(* A configuration/reference table is [names, row, hdr]: the Var_Name      *)
(* column in row order, the row of each variable, and the columns the      *)
(* table holds beyond the configuration schema ("Min", "Max", ...).  A     *)
(* dataset is a function from column names to equally long sequences of    *)
(* cells.                                                                  *)

Ok(v) == [err |-> "none", val |-> v]

Raise(e, v) == [err |-> e, val |-> v]

\* float(cell): the number a cell holds or spells; nan for a missing cell
Float(v) == IF v.k \in {"num", "numstr"} THEN Num(v.n, v.d) ELSE Null

\* float('mean') raises ValueError
FloatRaises(v) == v.k = "str"

NonNull(c) == SelectSeq(c, LAMBDA v : ~IsNull(v))

HasNull(c) == \E i \in 1 .. Len(c) : IsNull(c[i])

\* a column of numeric dtype holds numbers and missing values only
IsNumeric(c) == \A i \in 1 .. Len(c) : c[i].k \in {"num", "null"}

RECURSIVE Insert(_, _)
Insert(v, c) ==
    IF c = <<>> THEN <<v>>
    ELSE IF Lt(Head(c), v) THEN <<Head(c)>> \o Insert(v, Tail(c))
    ELSE <<v>> \o c

RECURSIVE Sorted(_)
Sorted(c) == IF c = <<>> THEN <<>> ELSE Insert(Head(c), Sorted(Tail(c)))

RECURSIVE Sum(_)
Sum(c) == IF c = <<>> THEN N(0) ELSE Add(Head(c), Sum(Tail(c)))

\* Series.quantile(p / q), linear interpolation, missing values dropped
Quantile(c, p, q) ==
    LET at(v) ==
            LET h == (Len(v) - 1) * p
                lo == h \div q
                fr == h % q
            IN  IF v = <<>> THEN Null
                ELSE IF fr = 0 THEN v[lo + 1]
                ELSE Add(v[lo + 1], Mul(Num(fr, q), Sub(v[lo + 2], v[lo + 1])))
    IN  at(Sorted(NonNull(c)))

\* a mean that counts the missing rows in its denominator
MeanOverAllRows(c) ==
    IF NonNull(c) = <<>> THEN Null ELSE Div(Sum(NonNull(c)), N(Len(c)))

\* Series.mean(), missing values skipped
Mean(c) ==
    LET v == NonNull(c)
    IN  IF v = <<>> THEN Null ELSE Div(Sum(v), N(Len(v)))

\* Series.median(), missing values skipped
Median(c) == Quantile(c, 1, 2)

\* Series.min() and Series.max(), missing values skipped
Min(c) == LET v == Sorted(NonNull(c)) IN IF v = <<>> THEN Null ELSE v[1]

Max(c) == LET v == Sorted(NonNull(c)) IN IF v = <<>> THEN Null ELSE v[Len(v)]

\* the order pandas sorts category labels in
CatOrder == <<"a", "b", "mode">>

Count(c, v) == Cardinality({i \in 1 .. Len(c) : c[i] = v})

\* Series.mode(): the most frequent labels, sorted; empty when all missing
Mode(c) ==
    SelectSeq(CatOrder, LAMBDA t :
        /\ Count(c, Str(t)) > 0
        /\ \A u \in 1 .. Len(CatOrder) :
               Count(c, Str(CatOrder[u])) <= Count(c, Str(t)))

\* list(df_config['Var_Name'][(Ind_Model == 1) & (flag == 1)])
ApplyList(t, flag) ==
    SelectSeq(t.names, LAMBDA v : t.row[v].Ind_Model = 1 /\ t.row[v][flag] = 1)

\* list(df_config['Var_Name'][(Ind_Model == 1) & (Missing_Impute notnull)])
ImputeList(t) ==
    SelectSeq(t.names, LAMBDA v :
        t.row[v].Ind_Model = 1 /\ ~IsNull(t.row[v].Missing_Impute))

\* list(config['Var_Name'][config['Ind_Model'] == 1])
ModelList(t) == SelectSeq(t.names, LAMBDA v : t.row[v].Ind_Model = 1)

\* reference.loc[reference['Var_Name'] == var, column] = value
SetCell(t, var, column, value) == [t EXCEPT !.row[var][column] = value]

\* running `step` over a variable list, stopping at the first raise;
\* st is the table or dataset the loop mutates
RECURSIVE Loop(_, _, _)
Loop(step(_, _), st, vs) ==
    IF vs = <<>> THEN Ok(st)
    ELSE LET rest(r) == IF r.err # "none" THEN r
                        ELSE Loop(step, r.val, Tail(vs))
         IN  rest(step(st, Head(vs)))

----------------------------------------------------------------------------
(* Cap                                                                     *)

\* Cap.__init__
CapNew(cfg) ==
    [kind |-> "Cap", config |-> cfg, reference |-> cfg,
     apply_list |-> ApplyList(cfg, "Ind_Cap")]

\* Cap.fit, one variable of the loop
CapFitVar(cfg, df, ref, var) ==
    LET given == cfg.row[var].Cap_Value
    IN  IF IsNull(given)
        THEN IF var \notin DOMAIN df THEN Raise("KeyError", ref)
             ELSE IF ~IsNumeric(df[var]) THEN Raise("TypeError", ref)
             ELSE Ok(SetCell(ref, var, "Cap_Value", Quantile(df[var], 99, 100)))
        ELSE IF FloatRaises(given) THEN Raise("ValueError", ref)
             ELSE Ok(SetCell(ref, var, "Cap_Value", Float(given)))

\* Cap.fit: the reference table it returns (and keeps)
CapFit(i, df) ==
    LET step(ref, var) == CapFitVar(i.config, df, ref, var)
    IN  Loop(step, i.reference, i.apply_list)

\* a Cap.apply that clamps from the wrong side
CapCellBelow(x, cap) == IF ~IsNull(x) /\ Lt(x, cap) THEN cap ELSE x

\* np.where(x > cap_value, cap_value, x), one cell
CapCell(x, cap) == IF ~IsNull(x) /\ Gt(x, cap) THEN cap ELSE x

\* Cap.apply, one variable of the loop
CapApplyVar(ref, df, var) ==
    LET cell == ref.row[var].Cap_Value
        cap == Float(cell)
    IN  IF FloatRaises(cell) \/ IsNull(cap) THEN Raise("ValueError", df)
        ELSE IF var \notin DOMAIN df THEN Raise("KeyError", df)
        ELSE IF ~IsNumeric(df[var]) THEN Raise("TypeError", df)
        ELSE Ok([df EXCEPT ![var] =
                    [r \in 1 .. Len(df[var]) |-> CapCell(df[var][r], cap)]])

\* Cap.apply: the dataset, mutated in place up to the first raise
CapApply(i, df) ==
    LET step(d, var) == CapApplyVar(i.reference, d, var)
    IN  Loop(step, df, i.apply_list)

----------------------------------------------------------------------------
(* Floor                                                                   *)

\* Floor.__init__
FloorNew(cfg) ==
    [kind |-> "Floor", config |-> cfg, reference |-> cfg,
     apply_list |-> ApplyList(cfg, "Ind_Floor")]

\* a derived floor without the min(..., 0)
FloorDerivedNoMin(c) == Mul(N(5), Quantile(c, 1, 100))

\* min(5 * p1, 0): Python's min returns its first argument unless the
\* second is smaller, so nan stays nan
FloorDerived(c) ==
    LET min0(v) == IF ~IsNull(v) /\ Lt(N(0), v) THEN N(0) ELSE v
        times5(q) == min0(IF IsNull(q) THEN q ELSE Mul(N(5), q))
    IN  times5(Quantile(c, 1, 100))

\* Floor.fit, one variable of the loop
FloorFitVar(cfg, df, ref, var) ==
    LET given == cfg.row[var].Floor_Value
    IN  IF IsNull(given)
        THEN IF var \notin DOMAIN df THEN Raise("KeyError", ref)
             ELSE IF ~IsNumeric(df[var]) THEN Raise("TypeError", ref)
             ELSE Ok(SetCell(ref, var, "Floor_Value", FloorDerived(df[var])))
        ELSE IF FloatRaises(given) THEN Raise("ValueError", ref)
             ELSE Ok(SetCell(ref, var, "Floor_Value", Float(given)))

\* Floor.fit
FloorFit(i, df) ==
    LET step(ref, var) == FloorFitVar(i.config, df, ref, var)
    IN  Loop(step, i.reference, i.apply_list)

\* Floor.apply, one variable of the loop: the np.where line follows the
\* raise inside the `if pd.isnull(floor_value)` branch, so it never runs
FloorApplyVar(ref, df, var) ==
    LET cell == ref.row[var].Floor_Value
        floor_value == Float(cell)
    IN  IF FloatRaises(cell) \/ IsNull(floor_value) THEN Raise("ValueError", df)
        ELSE Ok(df)

\* Floor.apply
FloorApply(i, df) ==
    LET step(d, var) == FloorApplyVar(i.reference, d, var)
    IN  Loop(step, df, i.apply_list)

----------------------------------------------------------------------------
(* MissingImpute                                                           *)

\* MissingImpute.__init__
MissingImputeNew(cfg) ==
    [kind |-> "MissingImpute", config |-> cfg, reference |-> cfg,
     apply_list |-> ImputeList(cfg)]

\* the column statistic a policy token asks for
ImputeStat(df, var, stat(_)) ==
    IF var \notin DOMAIN df THEN Raise("KeyError", Null)
    ELSE IF ~IsNumeric(df[var]) THEN Raise("TypeError", Null)
    ELSE Ok(stat(df[var]))

\* MissingImpute.fit: the impute value of one variable
ImputeValue(cfg, df, var) ==
    LET row == cfg.row[var]
        given == row.Missing_Impute
    IN  IF row.Var_Type = "numerical"
        THEN IF given = Str("mean") THEN ImputeStat(df, var, Mean)
             ELSE IF given = Str("median") THEN ImputeStat(df, var, Median)
             ELSE IF ~IsNull(given)
               THEN IF FloatRaises(given) THEN Raise("ValueError", Null)
                    ELSE Ok(Float(given))
             ELSE Ok(Null)
        ELSE IF row.Var_Type = "categorical"
        THEN IF given = Str("mode")
               THEN IF var \notin DOMAIN df THEN Raise("KeyError", Null)
                    ELSE IF Mode(df[var]) = <<>> THEN Raise("IndexError", Null)
                    ELSE Ok(Str(Mode(df[var])[1]))
             ELSE Ok(given)
        ELSE Raise("TypeError", Null)

\* MissingImpute.fit, one variable of the loop
MissingImputeFitVar(cfg, df, ref, var) ==
    LET store(r) == IF r.err # "none" THEN Raise(r.err, ref)
                    ELSE Ok(SetCell(ref, var, "Missing_Impute", r.val))
    IN  store(ImputeValue(cfg, df, var))

\* MissingImpute.fit: loops over every in-model variable of the config
MissingImputeFit(i, df) ==
    LET step(ref, var) == MissingImputeFitVar(i.config, df, ref, var)
    IN  Loop(step, i.reference, ModelList(i.config))

\* Series.fillna(impute_value), one cell
FillCell(x, impute_value) == IF IsNull(x) THEN impute_value ELSE x

\* MissingImpute.apply, one variable of the loop
MissingImputeApplyVar(ref, df, var) ==
    LET cell == ref.row[var].Missing_Impute
        impute_value ==
            IF ref.row[var].Var_Type = "numerical" THEN Float(cell) ELSE cell
    IN  IF var \notin DOMAIN df \/ ~HasNull(df[var]) THEN Ok(df)
        ELSE IF ref.row[var].Var_Type = "numerical" /\ FloatRaises(cell)
          THEN Raise("ValueError", df)
        ELSE IF IsNull(impute_value) THEN Raise("ValueError", df)
        ELSE Ok([df EXCEPT ![var] =
                    [r \in 1 .. Len(df[var]) |-> FillCell(df[var][r], impute_value)]])

\* MissingImpute.apply
MissingImputeApply(i, df) ==
    LET step(d, var) == MissingImputeApplyVar(i.reference, d, var)
    IN  Loop(step, df, i.apply_list)

----------------------------------------------------------------------------
(* Scale                                                                   *)

\* Scale.__init__
ScaleNew(cfg) ==
    [kind |-> "Scale", config |-> cfg, reference |-> cfg,
     apply_list |-> ApplyList(cfg, "Ind_Scale")]

\* the column a variable is held in at this pipeline position; real_var is
\* left unbound (UnboundLocalError) for an evidence-weighted variable that
\* is neither numerical nor categorical
RealVar(cfg, var) ==
    IF cfg.row[var].Ind_WOE = 1
    THEN IF cfg.row[var].Var_Type = "numerical" THEN Ok("nwoe_" \o var)
         ELSE IF cfg.row[var].Var_Type = "categorical" THEN Ok("cwoe_" \o var)
         ELSE Raise("UnboundLocalError", var)
    ELSE Ok(var)

\* Scale.fit, one variable of the loop: (min, max) into the df_ref rows
ScaleFitVar(cfg, df, ref, var) ==
    LET rv == RealVar(cfg, var)
    IN  IF rv.err # "none" THEN Raise(rv.err, ref)
        ELSE IF rv.val \notin DOMAIN df THEN Raise("KeyError", ref)
        ELSE IF ~IsNumeric(df[rv.val]) THEN Raise("TypeError", ref)
        ELSE Ok(SetCell(SetCell(ref, var, "Min", Min(df[rv.val])),
                        var, "Max", Max(df[rv.val])))

\* pd.merge(config, df_ref, how='left', on='Var_Name'): the config with the
\* columns Min and Max of df_ref; when the config holds Min and Max already
\* the merge names the four columns Min_x, Max_x, Min_y, Max_y and the
\* result holds no column Min or Max
MergeMinMax(cfg) ==
    LET blank == [cfg EXCEPT !.row =
                    [v \in DOMAIN cfg.row |->
                        [cfg.row[v] EXCEPT !.Min = Null, !.Max = Null]]]
    IN  IF "Min" \in cfg.hdr
        THEN [blank EXCEPT !.hdr = (cfg.hdr \ {"Min", "Max"})
                                   \cup {"Min_x", "Max_x", "Min_y", "Max_y"}]
        ELSE [blank EXCEPT !.hdr = cfg.hdr \cup {"Min", "Max"}]

\* Scale.fit
ScaleFit(i, df) ==
    LET step(ref, var) == ScaleFitVar(i.config, df, ref, var)
    IN  Loop(step, MergeMinMax(i.config), i.apply_list)

\* a Scale.apply without the two clamps
ScaleCellUnclamped(x, var_min, var_max) ==
    IF IsNull(x) THEN Null ELSE Div(Sub(x, var_min), Sub(var_max, var_min))

\* (x - min) / (max - min), then the two clamps, one cell
ScaleCell(x, var_min, var_max) ==
    LET clamp(y) == IF ~IsNull(y) /\ Gt(y, N(1)) THEN N(1)
                    ELSE IF ~IsNull(y) /\ Lt(y, N(0)) THEN N(0)
                    ELSE y
    IN  clamp(IF IsNull(x) THEN Null
              ELSE Div(Sub(x, var_min), Sub(var_max, var_min)))

\* Scale.apply, one variable of the loop
ScaleApplyVar(cfg, ref, df, var) ==
    LET rv == RealVar(cfg, var)
        var_min == ref.row[var].Min
        var_max == ref.row[var].Max
    IN  IF "Min" \notin ref.hdr THEN Raise("KeyError", df)
        ELSE IF IsNull(var_min) \/ IsNull(var_max) THEN Raise("ValueError", df)
        ELSE IF Sub(var_max, var_min) = N(0) THEN Raise("ValueError", df)
        ELSE IF rv.err # "none" THEN Raise(rv.err, df)
        ELSE IF rv.val \notin DOMAIN df THEN Raise("KeyError", df)
        ELSE IF ~IsNumeric(df[rv.val]) THEN Raise("TypeError", df)
        ELSE Ok([df EXCEPT ![rv.val] =
                    [r \in 1 .. Len(df[rv.val]) |->
                        ScaleCell(df[rv.val][r], var_min, var_max)]])

\* Scale.apply
ScaleApply(i, df) ==
    LET step(d, var) == ScaleApplyVar(i.config, i.reference, d, var)
    IN  Loop(step, df, i.apply_list)

----------------------------------------------------------------------------
(* Woe.  The binning engine (woe_tools) is outside the source: it is       *)
(* modelled at its interface, one bin per distinct value of the variable   *)
(* (missing values are their own bin); the weight of a bin stands for its  *)
(* evidence weight and is the number of its rows with target 1 minus the   *)
(* number with target 0.                                                   *)

\* no WOE reference table (None)
NoRef == [present |-> FALSE, rows |-> {}]

\* Woe.__init__
WoeNew(cfg, target, woe_ref) ==
    [kind |-> "Woe", config |-> cfg, reference |-> woe_ref, target |-> target,
     apply_list |-> ApplyList(cfg, "Ind_WOE")]

\* woe.numwoe_autobinning / woe.catwoe_autobinning: the per-bin rows
EngineBins(df, var, var_type, target) ==
    LET weight(v) ==
            N(Cardinality({r \in 1 .. Len(df[var]) :
                               df[var][r] = v /\ df[target][r] = N(1)})
              - Cardinality({r \in 1 .. Len(df[var]) :
                                 df[var][r] = v /\ df[target][r] = N(0)}))
    IN  {[Var_Name |-> var, Var_Type |-> var_type, Var_Value |-> df[var][r],
          Ref_Value |-> weight(df[var][r])] : r \in 1 .. Len(df[var])}

\* woe.numwoe_apply / woe.catwoe_apply: the weight-substituted column
EngineApply(c, rows) ==
    [r \in 1 .. Len(c) |->
        IF \E b \in rows : b.Var_Value = c[r]
        THEN (CHOOSE b \in rows : b.Var_Value = c[r]).Ref_Value
        ELSE Null]

\* Woe.fit, one variable of either loop; st is the rows gathered so far
WoeFitVar(cfg, df, target, st, var) ==
    IF var \notin DOMAIN df \/ target \notin DOMAIN df THEN Raise("KeyError", st)
    ELSE Ok(st \cup EngineBins(df, var, cfg.row[var].Var_Type, target))

\* Woe.fit: the numerical variables of the applicable list, then the
\* categorical ones; variables of any other type are in neither list
WoeFit(i, df) ==
    LET typed(t) == SelectSeq(i.config.names, LAMBDA v :
                        /\ \E k \in 1 .. Len(i.apply_list) : i.apply_list[k] = v
                        /\ i.config.row[v].Var_Type = t)
        step(st, var) == WoeFitVar(i.config, df, i.target, st, var)
        table(r) == IF r.err # "none" THEN Raise(r.err, i.reference)
                    ELSE Ok([present |-> TRUE, rows |-> r.val])
    IN  table(Loop(step, {}, typed("numerical") \o typed("categorical")))

\* Woe.apply, one variable of either loop, on the copy df_return
WoeApplyVar(rows, df, var, prefix) ==
    IF var \notin DOMAIN df THEN Raise("KeyError", df)
    ELSE Ok(((prefix \o var) :> EngineApply(df[var],
                                  {b \in rows : b.Var_Name = var})) @@ df)

\* Woe.apply: works on a copy and returns it without the original columns
\* of the applicable list.  The concatenation of no per-variable table is
\* a frame without columns, on which ['Var_Name'] raises KeyError.
WoeApply(i, df) ==
    LET inlist(v) == \E k \in 1 .. Len(i.apply_list) : i.apply_list[k] = v
        rows == {b \in i.reference.rows : inlist(b.Var_Name)}
        typed(t) == SelectSeq(i.config.names, LAMBDA v :
                        \E b \in rows : b.Var_Name = v /\ b.Var_Type = t)
        num(d, var) == WoeApplyVar(rows, d, var, "nwoe_")
        cag(d, var) == WoeApplyVar(rows, d, var, "cwoe_")
        keep(r2) == IF r2.err # "none" THEN Raise(r2.err, df)
                    ELSE Ok([c \in {c \in DOMAIN r2.val : ~inlist(c)} |-> r2.val[c]])
        second(r1) == keep(IF r1.err # "none" THEN r1
                           ELSE Loop(cag, r1.val, typed("categorical")))
    IN  IF ~i.reference.present THEN Raise("ValueError", df)
        ELSE IF i.reference.rows = {} THEN Raise("KeyError", df)
        ELSE second(Loop(num, df, typed("numerical")))

----------------------------------------------------------------------------
(* Tactic                                                                  *)

NoTarget == "None"

\* Tactic.__init__
TacticNew(cfg, process_list, target, woe_ref) ==
    [config |-> cfg, reference |-> cfg, process_list |-> process_list,
     target |-> target, woe_reference |-> woe_ref]

InList(op, process_list) ==
    \E k \in 1 .. Len(process_list) : process_list[k] = op

\* a __complie that builds every component on self.config
ComplieOnConfig(t, operation) ==
    CASE operation = "Woe" -> WoeNew(t.config, t.target, t.woe_reference)
      [] operation = "Cap" -> CapNew(t.config)
      [] operation = "Floor" -> FloorNew(t.config)
      [] operation = "MissingImpute" -> MissingImputeNew(t.config)
      [] operation = "Scale" -> ScaleNew(t.config)

\* Tactic.__complie: every component is built on the current self.reference
Complie(t, operation) ==
    CASE operation = "Woe" -> WoeNew(t.reference, t.target, t.woe_reference)
      [] operation = "Cap" -> CapNew(t.reference)
      [] operation = "Floor" -> FloorNew(t.reference)
      [] operation = "MissingImpute" -> MissingImputeNew(t.reference)
      [] operation = "Scale" -> ScaleNew(t.reference)

\* instance.fit(df): the table it returns, or what it raises
InstFit(i, df) ==
    CASE i.kind = "Woe" -> WoeFit(i, df)
      [] i.kind = "Cap" -> CapFit(i, df)
      [] i.kind = "Floor" -> FloorFit(i, df)
      [] i.kind = "MissingImpute" -> MissingImputeFit(i, df)
      [] i.kind = "Scale" -> ScaleFit(i, df)

\* instance.apply(df): the dataset it returns; for every component but Woe
\* that is the dataset passed, mutated in place (also when it raises)
InstApply(i, df) ==
    CASE i.kind = "Woe" -> WoeApply(i, df)
      [] i.kind = "Cap" -> CapApply(i, df)
      [] i.kind = "Floor" -> FloorApply(i, df)
      [] i.kind = "MissingImpute" -> MissingImputeApply(i, df)
      [] i.kind = "Scale" -> ScaleApply(i, df)

\* the dtype of a dataset column: float64 when it holds numbers and
\* missing values only, object otherwise
DType(c) == IF IsNumeric(c) THEN "float64" ELSE "object"

\* `type(impute_value) == str`: impute_value is a Series (the .iloc[0] is
\* missing), so the test never holds
SeriesIsStr(series) == FALSE

\* check_config_file, the Var_Type loop for one variable; cnt is the running
\* count.  print(...).format(var) formats on Python 2 and raises
\* AttributeError on Python 3.
CheckTypeVar(cfg, df, py3, cnt, var) ==
    LET t == cfg.row[var].Var_Type
    IN  IF t \notin {"numerical", "categorical"}
        THEN IF py3 THEN Raise("AttributeError", cnt) ELSE Ok(cnt + 1)
        ELSE IF var \notin DOMAIN df THEN Raise("KeyError", cnt)
        ELSE IF t = "numerical" /\ DType(df[var]) # "float64" THEN Ok(cnt + 1)
        ELSE IF t = "categorical" /\ DType(df[var]) # "object" THEN Ok(cnt + 1)
        ELSE Ok(cnt)

\* Tactic.check_config_file: the error count, or what it raises
CheckConfigFile(cfg, df, py3) ==
    LET wrong_header == cfg.hdr
        wrong_var_name == SelectSeq(cfg.names, LAMBDA v : v \notin DOMAIN df)
        cnt1 == (IF wrong_header # {} THEN 1 ELSE 0)
                + (IF wrong_var_name # <<>> THEN 1 ELSE 0)
        step(cnt, var) == CheckTypeVar(cfg, df, py3, cnt, var)
        cag_var_list == SelectSeq(cfg.names,
                            LAMBDA v : cfg.row[v].Var_Type = "categorical")
        num_var_list == SelectSeq(cfg.names,
                            LAMBDA v : cfg.row[v].Var_Type = "numerical")
        capfloor == Len(SelectSeq(cag_var_list, LAMBDA v :
                            cfg.row[v].Ind_Cap = 1 \/ cfg.row[v].Ind_Floor = 1))
        impute == Len(SelectSeq(num_var_list, LAMBDA v :
                          /\ SeriesIsStr(cfg.row[v].Missing_Impute)
                          /\ cfg.row[v].Missing_Impute
                                 \notin {Str("mean"), Str("median")}))
        total(r) == IF r.err # "none" THEN r ELSE Ok(r.val + capfloor + impute)
    IN  total(Loop(step, cnt1, cfg.names))

\* a fit loop that fits every component on the working copy without
\* applying the component to it
FitStageNoApply(st, operation) ==
    LET fitted(f) ==
            IF f.err # "none"
            THEN Raise(f.err, [t |-> st.t, df |-> st.df, ran |-> st.ran + 1])
            ELSE Ok([t |-> IF operation = "Woe"
                           THEN [st.t EXCEPT !.woe_reference = f.val]
                           ELSE [st.t EXCEPT !.reference = f.val],
                     df |-> st.df, ran |-> st.ran + 1])
    IN  fitted(InstFit(Complie(st.t, operation), st.df))

\* Tactic.fit, the loop over process_list: st = [t, df, ran] is the
\* orchestrator, the working copy df_tmp and the component calls begun
FitStage(st, operation) ==
    LET applied(t1, a) ==
            [err |-> a.err, val |-> [t |-> t1, df |-> a.val, ran |-> st.ran + 2]]
        fitted(instance, f) ==
            IF f.err # "none"
            THEN Raise(f.err, [t |-> st.t, df |-> st.df, ran |-> st.ran + 1])
            ELSE applied(IF operation = "Woe"
                         THEN [st.t EXCEPT !.woe_reference = f.val]
                         ELSE [st.t EXCEPT !.reference = f.val],
                         InstApply([instance EXCEPT !.reference = f.val], st.df))
        built(instance) == fitted(instance, InstFit(instance, st.df))
    IN  built(Complie(st.t, operation))

\* a Tactic.fit that runs its components without the two gates
TacticFitUngated(t, df, py3) ==
    Loop(FitStage, [t |-> t, df |-> df, ran |-> 0], t.process_list)

\* Tactic.fit: [err, val = [t, df, ran]]; the caller's dataset is copied
\* first and never written
TacticFit(t, df, py3) ==
    LET st0 == [t |-> t, df |-> df, ran |-> 0]
        gated(c) ==
            IF c.err # "none" THEN Raise(c.err, st0)
            ELSE IF c.val > 0 THEN Raise("TypeError", st0)
            ELSE IF InList("Woe", t.process_list) /\ t.target = NoTarget
              THEN Raise("ValueError", st0)
            ELSE Loop(FitStage, st0, t.process_list)
    IN  gated(CheckConfigFile(t.config, df, py3))

\* Tactic.apply, the loop over process_list: st = [cur, arg, alias] is
\* df_return, the dataset object the caller passed, and whether df_return
\* still is that object (Woe.apply returns a copy)
ApplyStage(t, st, operation) ==
    LET returned(a) ==
            IF operation = "Woe"
            THEN IF a.err # "none" THEN Raise(a.err, st)
                 ELSE Ok([cur |-> a.val, arg |-> st.arg, alias |-> FALSE])
            ELSE [err |-> a.err,
                  val |-> [cur |-> a.val,
                           arg |-> IF st.alias THEN a.val ELSE st.arg,
                           alias |-> st.alias]]
    IN  returned(InstApply(Complie(t, operation), st.cur))

\* Tactic.apply: [err, val = [cur, arg, alias]]
TacticApply(t, df) ==
    LET step(st, operation) == ApplyStage(t, st, operation)
    IN  Loop(step, [cur |-> df, arg |-> df, alias |-> TRUE], t.process_list)

\* a Tactic.apply that keeps what fitting the stages on the dataset learns
TacticAfterApplyFitted(t, df) ==
    Loop(FitStage, [t |-> t, df |-> df, ran |-> 0], t.process_list).val.t

\* the orchestrator after Tactic.apply: apply assigns no attribute of self,
\* and every component works on its own copy of the reference table
TacticAfterApply(t, df) == t

\* self.reference.loc[self.reference['Var_Name'] == var, column] = value,
\* for every var of the list; a name the table does not hold selects no row
SetColumn(ref, var_list, column, value) ==
    [ref EXCEPT !.row =
        [v \in DOMAIN ref.row |->
            IF InList(v, var_list) THEN [ref.row[v] EXCEPT ![column] = value]
            ELSE ref.row[v]]]

\* Tactic.add_variables
TacticAddVariables(t, add_list, column) ==
    [t EXCEPT !.reference = SetColumn(t.reference, add_list, column, 1)]

\* Tactic.drop_variables
TacticDropVariables(t, drop_list, column) ==
    [t EXCEPT !.reference = SetColumn(t.reference, drop_list, column, 0)]

\* DataFrame.to_csv, one cell: a number is written as its numeral, a
\* missing value as the empty field, a text as it is
ToCsvCell(v) == IF v.k = "num" THEN NumStr(v.n, v.d) ELSE v

\* pd.read_csv, one cell of a column: a column whose fields are all
\* numerals or empty is parsed as numbers, any other column stays text
ReadCsvCell(v, numeric_column) ==
    IF numeric_column /\ v.k = "numstr" THEN Num(v.n, v.d) ELSE v

CellColumns == {"Cap_Value", "Floor_Value", "Missing_Impute", "Min", "Max"}

\* Tactic.save_reference followed by pd.read_csv of the file
SaveAndReload(ref) ==
    LET csv(v, c) == ToCsvCell(ref.row[v][c])
        numeric(c) == \A v \in DOMAIN ref.row : csv(v, c).k \in {"numstr", "null"}
    IN  [ref EXCEPT !.row =
            [v \in DOMAIN ref.row |->
                [c \in DOMAIN ref.row[v] |->
                    IF c \in CellColumns
                    THEN ReadCsvCell(csv(v, c), numeric(c))
                    ELSE ref.row[v][c]]]]

----------------------------------------------------------------------------
(* Inputs.                                                                 *)

\* a configuration row with every stage switched off
BaseRow ==
    [Var_Type |-> "numerical", Ind_Model |-> 1, Ind_Cap |-> 0, Cap_Value |-> Null,
     Ind_Floor |-> 0, Floor_Value |-> Null, Missing_Impute |-> Null,
     Ind_WOE |-> 0, Ind_Scale |-> 0, Min |-> Null, Max |-> Null]

\* the configuration table of the one variable x
Table1(rx) == [names |-> <<"x">>, row |-> ("x" :> rx), hdr |-> {}]

\* values of the numerical column x
XVals == {Null, N(-3), N(1), N(2), N(4)}

Columns(n, vals) == [1 .. n -> vals]

NoCall == [call |-> "new", err |-> "none", val |-> <<>>]

NoInst == [kind |-> "none"]

CorrIdle ==
    /\ corr = <<>> /\ corr_in = <<>> /\ thresh = 0
    /\ col = 0 /\ idx = 0 /\ picked = {} /\ fpc = "idle"

TacIdle == tactic = <<>> /\ out = <<>> /\ chk = NoCall

----------------------------------------------------------------------------
(* A single component, used as in the module's usage text:                 *)
(* operation = pp.Cap(df_config); operation.fit(df); operation.apply(df).  *)

CompInstances ==
    {CapNew(Table1([BaseRow EXCEPT !.Ind_Cap = 1, !.Cap_Value = v])) :
        v \in {Null, N(2), NumStr(1, 1)}}
    \cup {FloorNew(Table1([BaseRow EXCEPT !.Ind_Floor = 1, !.Floor_Value = v])) :
        v \in {Null, N(-1), N(2)}}
    \cup {MissingImputeNew(Table1([BaseRow EXCEPT !.Missing_Impute = v])) :
        v \in {Null, Str("mean"), Str("median"), NumStr(0, 1)}}
    \cup {ScaleNew(Table1([BaseRow EXCEPT !.Ind_Scale = 1]))}

CompDatasets == {("x" :> c) : c \in Columns(NRows, XVals)}

CompInit ==
    /\ inst \in CompInstances
    /\ df_master \in CompDatasets
    /\ df_in = <<>>
    /\ ret = NoCall
    /\ CorrIdle
    /\ TacIdle

\* operation.fit(df_master).  Cap, Floor and MissingImpute write their
\* reference table in place, row by row; Scale assigns it at the end.
CompFit ==
    /\ ret.call = "new"
    /\ \E r \in {InstFit(inst, df_master)} :
          /\ inst' = IF r.err # "none" /\ inst.kind = "Scale" THEN inst
                     ELSE [inst EXCEPT !.reference = r.val]
          /\ ret' = [call |-> "fit", err |-> r.err, val |-> <<>>]
    /\ UNCHANGED <<df_master, df_in, corrVars, tacVars>>

\* operation.apply(d) on any dataset d; ret.val is d after the call
CompApply ==
    /\ ret.call # "apply"
    /\ \E d \in CompDatasets :
          \E r \in {InstApply(inst, d)} :
              /\ df_in' = d
              /\ ret' = [call |-> "apply", err |-> r.err, val |-> r.val]
    /\ UNCHANGED <<inst, df_master, corrVars, tacVars>>

CompNext == CompFit \/ CompApply

SpecComp == CompInit /\ [][CompNext]_vars

----------------------------------------------------------------------------
(* The orchestrator, used as in the module's usage text:                   *)
(*   process = pp.Tactic(df_config, process_list=[...], target='target')   *)
(*   process.fit(df_train); process.apply(df_train)                        *)
(*   process.save_reference(path)                                          *)
(*   process = pp.Tactic(pd.read_csv(path), process_list=[...], ...)       *)
(*   process.apply(df_train)                                               *)

\* the configuration table of the variables x and c
Table2(rx, rc) ==
    [names |-> <<"x", "c">>, row |-> ("x" :> rx) @@ ("c" :> rc), hdr |-> {}]

ConstCol(v) == [i \in 1 .. NRows |-> v]

\* a column whose first value is missing
FirstNull(v) == [i \in 1 .. NRows |-> IF i = 1 THEN Null ELSE v]

\* the binary target column
TargetCol == [i \in 1 .. NRows |-> N(i % 2)]

NoTactic == [config |-> "none"]

\* the interpreter the module runs on is not fixed by the source
Python3 == BOOLEAN

\* process.check_config_file(df_master)
CheckConfigCall ==
    /\ chk.call = "new"
    /\ \E py3 \in Python3 :
          \E r \in {CheckConfigFile(tactic["orig"].config, df_master, py3)} :
              chk' = [call |-> "check", err |-> r.err, val |-> r.val]
    /\ UNCHANGED <<tactic, out, compVars, corrVars>>

\* process.fit(df_master); chk.val is the number of component calls begun
Fit ==
    /\ chk.call = "new"
    /\ \E py3 \in Python3 :
          \E r \in {TacticFit(tactic["orig"], df_master, py3)} :
              /\ tactic' = [tactic EXCEPT !["orig"] = r.val.t]
              /\ chk' = [call |-> "fit", err |-> r.err, val |-> r.val.ran]
    /\ UNCHANGED <<out, compVars, corrVars>>

\* process.apply(df_master.copy()) on the Tactic `id`
Apply(id) ==
    /\ chk.call = "fit"
    /\ tactic[id] # NoTactic
    /\ out[id].call = "new"
    /\ \E r \in {TacticApply(tactic[id], df_master)} :
          out' = [out EXCEPT ![id] =
                     [call |-> "apply", err |-> r.err,
                      val |-> IF r.err = "none" THEN r.val.cur ELSE <<>>,
                      arg |-> r.val.arg]]
    /\ tactic' = [tactic EXCEPT ![id] = TacticAfterApply(tactic[id], df_master)]
    /\ UNCHANGED <<chk, compVars, corrVars>>

\* process.apply(df_master.copy()) once more on the fitted Tactic
ApplyAgain ==
    /\ out["orig"].call = "apply"
    /\ "again" \notin DOMAIN out
    /\ \E r \in {TacticApply(tactic["orig"], df_master)} :
          out' = ("again" :> [call |-> "apply", err |-> r.err,
                              val |-> IF r.err = "none" THEN r.val.cur ELSE <<>>,
                              arg |-> r.val.arg]) @@ out
    /\ tactic' = [tactic EXCEPT !["orig"] =
                     TacticAfterApply(tactic["orig"], df_master)]
    /\ UNCHANGED <<chk, compVars, corrVars>>

\* process.save_reference(path), then a fresh Tactic on pd.read_csv(path)
\* with the same process list and target and no woe_ref
SaveReload ==
    /\ chk.call = "fit" /\ chk.err = "none"
    /\ tactic["fresh"] = NoTactic
    /\ tactic' = [tactic EXCEPT !["fresh"] =
                     TacticNew(SaveAndReload(tactic["orig"].reference),
                               tactic["orig"].process_list,
                               tactic["orig"].target, NoRef)]
    /\ UNCHANGED <<out, chk, compVars, corrVars>>

\* ---- two fits of one Tactic: a numerical x that is capped, floored and
\* imputed, and a categorical c imputed by its mode or by a literal

RefitConfigs ==
    {Table2([BaseRow EXCEPT !.Ind_Cap = 1, !.Ind_Floor = 1, !.Missing_Impute = mx,
                            !.Ind_Scale = sx],
            [BaseRow EXCEPT !.Var_Type = "categorical", !.Missing_Impute = mc]) :
        mx \in {Null, Str("mean")},
        sx \in {0, 1},
        mc \in {Str("mode"), NumStr(-1, 1)}}

RefitLists ==
    {<<"Cap", "Floor", "MissingImpute">>,
     <<"MissingImpute", "Cap">>,
     <<"Cap", "Scale">>}

RefitDatasets ==
    {("x" :> cx) @@ ("c" :> cc) :
        cx \in Columns(NRows, {Null, N(1), N(4)}),
        cc \in {ConstCol(Str("a")), FirstNull(Str("a")), ConstCol(Str("mode"))}}

NoApply == [call |-> "new", err |-> "none", val |-> <<>>, arg |-> <<>>]

TacticInit(configs, lists, targets, datasets) ==
    /\ \E cfg \in configs, pl \in lists, tg \in targets :
          tactic = [id \in {"orig", "fresh"} |->
                       IF id = "orig" THEN TacticNew(cfg, pl, tg, NoRef)
                       ELSE NoTactic]
    /\ df_master \in datasets
    /\ out = [id \in {"orig", "fresh"} |-> NoApply]
    /\ chk = NoCall
    /\ inst = NoInst /\ df_in = <<>> /\ ret = NoCall
    /\ CorrIdle

\* ---- check_config_file on well-formed and ill-formed configurations

CheckConfigs ==
    {Table2([BaseRow EXCEPT !.Var_Type = tx, !.Missing_Impute = mx, !.Ind_Cap = cx],
            [BaseRow EXCEPT !.Var_Type = tc, !.Ind_Cap = cc, !.Ind_Floor = fc,
                            !.Missing_Impute = Str("missing")]) :
        tx \in {"numerical", "categorical", "timestamp"},
        mx \in {Null, Str("mean"), Str("foo"), NumStr(-1, 1)},
        cx \in {0, 1},
        tc \in {"categorical", "numerical"},
        cc \in {0, 1},
        fc \in {0, 1}}

CheckDatasets ==
    {("x" :> cx) @@ ("c" :> cc) :
        cx \in {FirstNull(N(1)), ConstCol(Str("a"))},
        cc \in {FirstNull(Str("a")), ConstCol(N(1))}}
    \cup {("c" :> cc) : cc \in {FirstNull(Str("a")), ConstCol(N(1))}}

CheckInit == TacticInit(CheckConfigs, {<<>>}, {NoTarget}, CheckDatasets)

SpecCheck == CheckInit /\ [][CheckConfigCall]_vars

\* ---- the lifecycle fit, apply, save, reload, apply

TacConfigs ==
    {Table2([BaseRow EXCEPT !.Ind_Cap = cx, !.Ind_Floor = 1, !.Missing_Impute = mx,
                            !.Ind_WOE = wx, !.Ind_Scale = 1],
            [BaseRow EXCEPT !.Var_Type = "categorical", !.Ind_Cap = cc,
                            !.Missing_Impute = mc, !.Ind_WOE = 1]) :
        cx \in {0, 1},
        mx \in {Null, Str("mean")},
        wx \in {0, 1},
        cc \in {0, 1},
        mc \in {Str("mode"), NumStr(-1, 1)}}

TacLists ==
    {<<"Cap", "Floor", "MissingImpute", "Woe">>,
     <<"Cap", "Floor", "MissingImpute">>,
     <<"MissingImpute", "Woe", "Scale">>,
     <<"Scale", "Cap">>}

TacDatasets ==
    {("x" :> cx) @@ ("c" :> cc) @@ ("y" :> TargetCol) :
        cx \in Columns(NRows, {Null, N(1), N(4)}),
        cc \in {ConstCol(Str("a")), FirstNull(Str("a"))}}

Init == TacticInit(TacConfigs, TacLists, {NoTarget, "y"}, TacDatasets)

Next == Fit \/ Apply("orig") \/ Apply("fresh") \/ SaveReload

Spec == Init /\ [][Next]_vars

\* ---- mean imputation end to end: one numerical in-model variable with
\* no cap, no floor and Missing_Impute = 'mean'

MeanConfigs == {Table1([BaseRow EXCEPT !.Missing_Impute = Str("mean")])}

MeanLists == {<<"MissingImpute">>, <<"Cap", "Floor", "MissingImpute">>}

MeanDatasets == {("x" :> c) : c \in Columns(MeanRows, {Null, N(1), N(2), N(4)})}

MeanInit == TacticInit(MeanConfigs, MeanLists, {NoTarget}, MeanDatasets)

SpecMean == MeanInit /\ [][Next]_vars

\* ---- fit once, then apply repeatedly

ReplayNext == Fit \/ Apply("orig") \/ ApplyAgain

SpecReplay == Init /\ [][ReplayNext]_vars

\* ---- add_variables / drop_variables before and after fit

\* the variable lists passed to add_variables / drop_variables; w is a
\* name the table does not hold
\* process.fit(d) once more on the fitted Tactic, d another dataset
Refit ==
    /\ chk.call = "fit" /\ chk.err = "none"
    /\ \E d \in RefitDatasets \ {df_master}, py3 \in Python3 :
          \E r \in {TacticFit(tactic["orig"], d, py3)} :
              /\ tactic' = [tactic EXCEPT !["orig"] = r.val.t]
              /\ chk' = [call |-> "refit", err |-> r.err, val |-> r.val.ran]
              /\ df_master' = d
    /\ UNCHANGED <<out, inst, df_in, ret, corrVars>>

RefitInit == TacticInit(RefitConfigs, RefitLists, {NoTarget}, RefitDatasets)

RefitNext == Fit \/ Refit

SpecRefit == RefitInit /\ [][RefitNext]_vars

VarLists == {<<"x">>, <<"c">>, <<"x", "c">>, <<"w">>}

\* process.add_variables(add_list), default column
AddVariables ==
    /\ out["orig"].call = "new"
    /\ \E add_list \in VarLists :
          tactic' = [tactic EXCEPT !["orig"] =
                        TacticAddVariables(tactic["orig"], add_list, "Ind_Model")]
    /\ UNCHANGED <<out, chk, compVars, corrVars>>

\* process.drop_variables(drop_list), default column
DropVariables ==
    /\ out["orig"].call = "new"
    /\ \E drop_list \in VarLists :
          tactic' = [tactic EXCEPT !["orig"] =
                        TacticDropVariables(tactic["orig"], drop_list, "Ind_Model")]
    /\ UNCHANGED <<out, chk, compVars, corrVars>>

VarsConfigs ==
    {Table2([BaseRow EXCEPT !.Ind_Model = ix, !.Ind_Cap = 1, !.Ind_WOE = wx,
                            !.Missing_Impute = Str("mean"), !.Ind_Scale = 1],
            [BaseRow EXCEPT !.Var_Type = "categorical", !.Ind_Model = ic,
                            !.Missing_Impute = Str("mode"), !.Ind_WOE = 1]) :
        ix \in {0, 1},
        ic \in {0, 1},
        wx \in {0, 1}}

VarsLists ==
    {<<"Cap", "MissingImpute">>, <<"MissingImpute", "Woe">>, <<"Scale">>}

VarsInit == TacticInit(VarsConfigs, VarsLists, {"y"}, TacDatasets)

VarsNext == AddVariables \/ DropVariables \/ Fit \/ Apply("orig")

SpecVars == VarsInit /\ [][VarsNext]_vars

\* ---- two numerical variables x and c through Cap, MissingImpute and
\* Scale: a stage can raise on its second variable

PairConfigs ==
    {Table2([BaseRow EXCEPT !.Ind_Cap = 1, !.Cap_Value = vx, !.Ind_Scale = 1,
                            !.Missing_Impute = mx],
            [BaseRow EXCEPT !.Ind_Cap = 1, !.Ind_Scale = 1]) :
        vx \in {Null, N(2)},
        mx \in {Null, Str("mean")}}

PairLists ==
    {<<"Cap">>, <<"Scale">>, <<"Cap", "MissingImpute">>,
     <<"MissingImpute", "Cap", "Scale">>}

PairDatasets ==
    {("x" :> cx) @@ ("c" :> cc) :
        cx \in Columns(NRows, {Null, N(1), N(4)}),
        cc \in {ConstCol(N(1)), ConstCol(Null), FirstNull(N(4)),
                [i \in 1 .. NRows |-> N(i)]}}

PairInit == TacticInit(PairConfigs, PairLists, {NoTarget}, PairDatasets)

SpecPair == PairInit /\ [][Next]_vars

----------------------------------------------------------------------------
(* Claims about the single components.                                     *)

Rows(c) == 1 .. Len(c)

\* the last call was an apply of a component of this kind, on variable x
Applied(kind) ==
    /\ inst.kind = kind
    /\ ret.call = "apply"
    /\ InList("x", inst.apply_list)

\* C3: Floor.apply, for a variable of its list whose floor is non-null,
\* sets every value below the floor to the floor, leaves every value at or
\* above the floor unchanged and leaves missing values missing.
C3_FloorClamps ==
    LET floor_value == Float(inst.reference.row["x"].Floor_Value)
    IN  (Applied("Floor") /\ ~IsNull(floor_value)) =>
            \A r \in Rows(df_in["x"]) :
                LET b == df_in["x"][r]
                    a == ret.val["x"][r]
                IN  /\ IsNull(b) => IsNull(a)
                    /\ (~IsNull(b) /\ Lt(b, floor_value)) => a = floor_value
                    /\ (~IsNull(b) /\ ~Lt(b, floor_value)) => a = b

\* C4: Cap.apply, for a variable of its list whose cap is non-null, leaves
\* every value at or below the cap unchanged, sets every value above the
\* cap to the cap, and leaves missing values missing.
C4_CapClamps ==
    LET cap_value == Float(inst.reference.row["x"].Cap_Value)
    IN  (Applied("Cap") /\ ~IsNull(cap_value)) =>
            /\ ret.err = "none"
            /\ \A r \in Rows(df_in["x"]) :
                LET b == df_in["x"][r]
                    a == ret.val["x"][r]
                IN  /\ IsNull(b) => IsNull(a)
                    /\ (~IsNull(b) /\ Gt(b, cap_value)) => a = cap_value
                    /\ (~IsNull(b) /\ ~Gt(b, cap_value)) => a = b

\* a Cap.apply that met a value above the cap, one below it and a missing one
C4_Witness ==
    LET cap_value == Float(inst.reference.row["x"].Cap_Value)
    IN  /\ Applied("Cap") /\ ~IsNull(cap_value) /\ ret.err = "none"
        /\ \E r \in Rows(df_in["x"]) :
               ~IsNull(df_in["x"][r]) /\ Gt(df_in["x"][r], cap_value)
        /\ \E r \in Rows(df_in["x"]) :
               IsNull(df_in["x"][r]) \/ Lt(df_in["x"][r], cap_value)

\* C5 as stated: after Scale.apply returns, every value of the scaled
\* column lies in [0, 1], for any input dataset.
C5_ScaleAllInUnit ==
    (Applied("Scale") /\ ret.err = "none") =>
        \A r \in Rows(ret.val["x"]) :
            LET a == ret.val["x"][r]
            IN  ~IsNull(a) /\ ~Lt(a, N(0)) /\ ~Gt(a, N(1))

\* C5 as amended: after Scale.apply returns, every non-missing value of the
\* scaled column lies in [0, 1] (inputs below the fitted min give 0, inputs
\* above the fitted max give 1), and a missing input stays missing.
C5_ScaleInUnit ==
    LET var_min == inst.reference.row["x"].Min
        var_max == inst.reference.row["x"].Max
    IN  (Applied("Scale") /\ ret.err = "none") =>
            \A r \in Rows(df_in["x"]) :
                LET b == df_in["x"][r]
                    a == ret.val["x"][r]
                IN  /\ IsNull(b) <=> IsNull(a)
                    /\ ~IsNull(a) => (~Lt(a, N(0)) /\ ~Gt(a, N(1)))
                    /\ (~IsNull(b) /\ Lt(b, var_min)) => a = N(0)
                    /\ (~IsNull(b) /\ Gt(b, var_max)) => a = N(1)

\* a Scale.apply on a value above the fitted max and one below the fitted min
C5_Witness ==
    /\ Applied("Scale") /\ ret.err = "none"
    /\ \E r \in Rows(df_in["x"]) :
           ~IsNull(df_in["x"][r]) /\ Gt(df_in["x"][r], inst.reference.row["x"].Max)
    /\ \E r \in Rows(df_in["x"]) :
           ~IsNull(df_in["x"][r]) /\ Lt(df_in["x"][r], inst.reference.row["x"].Min)

----------------------------------------------------------------------------
(* Claims about filt_corr.                                                 *)

\* the matrix of the worked example: A-B 0.95, A-C 0.2, B-C 0.3
IsExample(m) ==
    /\ Labels = {1, 2, 3}
    /\ m[1][2] = 95 /\ m[1][3] = 20 /\ m[2][3] = 30

\* the scan is at a cell of two not yet eliminated variables whose
\* transformed correlation exceeds the threshold
MeetsPair == fpc = "scan" /\ corr[idx][col] > thresh

\* C10: whenever the scan meets such a pair, the variable that step
\* eliminates is the one later in the row/column order and the earlier one
\* is kept; for the worked example with threshold 0.9 the returned matrix
\* is indexed by exactly {A, C}.
C10_LaterEliminated ==
    /\ [][MeetsPair =>
            /\ col < idx
            /\ Picked(corr') = Picked(corr) \ {idx}
            /\ col \in Picked(corr')]_vars
    /\ []((fpc = "done" /\ IsExample(corr_in) /\ thresh = 90) => picked = {1, 3})

\* the worked example has been filtered
C10_Witness ==
    fpc = "done" /\ IsExample(corr_in) /\ thresh = 90 /\ picked = {1, 3}

----------------------------------------------------------------------------
(* Claims about the orchestrator.                                          *)

\* fit has succeeded and both Tactics have applied to a copy of the dataset
BothApplied ==
    /\ chk.call = "fit" /\ chk.err = "none"
    /\ out["orig"].call = "apply"
    /\ out["fresh"].call = "apply"

\* C1 as stated: after fit, apply by the fitted Tactic and apply by a fresh
\* Tactic built from the saved and reloaded reference table (same process
\* list) give the same output on copies of the fitted dataset.
C1_RoundTrip ==
    BothApplied =>
        /\ out["orig"].err = out["fresh"].err
        /\ out["orig"].val = out["fresh"].val

\* C2 as stated: a fresh Tactic built from a generated reference table
\* alone, with process list [Cap, Floor, MissingImpute, Woe] and a target,
\* applies to a dataset without raising.
C2_ApplyOnly ==
    (/\ out["fresh"].call = "apply"
     /\ tactic["fresh"].process_list = <<"Cap", "Floor", "MissingImpute", "Woe">>
     /\ tactic["fresh"].target # NoTarget)
        => out["fresh"].err = "none"

\* check_config_file reports an error on the configuration and the dataset
ConfigErrors(t, df) ==
    \E py3 \in Python3 :
        LET c == CheckConfigFile(t.config, df, py3)
        IN  c.err = "none" /\ c.val > 0

\* Woe is in the process list while target is unset
TargetMissing(t) == InList("Woe", t.process_list) /\ t.target = NoTarget

\* C8: a fit called while check_config_file reports an error, or while Woe
\* is listed and target is unset, raises before any component's fit or
\* apply has begun, and leaves the orchestrator (reference table, WOE
\* reference) and the caller's dataset as they were.
C8_FitGated ==
    [][(/\ chk.call = "new" /\ chk'.call = "fit"
        /\ ConfigErrors(tactic["orig"], df_master) \/ TargetMissing(tactic["orig"]))
        => (/\ chk'.err # "none"
            /\ chk'.val = 0
            /\ tactic' = tactic
            /\ df_master' = df_master)]_vars

\* a fit that raised on a configuration error, and found Woe without target
C8_Witness ==
    /\ chk.call = "fit" /\ chk.err = "TypeError" /\ chk.val = 0
    /\ ConfigErrors(tactic["orig"], df_master)
    /\ TargetMissing(tactic["orig"])
    /\ tactic["orig"].reference = tactic["orig"].config

\* C9: with Missing_Impute = 'mean' on a numerical in-model variable with
\* no cap/floor, fit then apply replaces every missing value by the mean of
\* the non-missing values of the fitted dataset and leaves the other values
\* unchanged ([1, 2, missing, 4] becomes [1, 2, 7/3, 4]); the reference
\* table then holds that mean in Missing_Impute.
C9_MeanImputed ==
    LET x == df_master["x"]
        known == NonNull(x)
        row == tactic["orig"].config.row["x"]
        m == tactic["orig"].reference.row["x"].Missing_Impute
    IN  (/\ chk.call = "fit" /\ out["orig"].call = "apply"
         /\ row.Var_Type = "numerical" /\ row.Ind_Model = 1
         /\ row.Ind_Cap = 0 /\ row.Ind_Floor = 0
         /\ row.Missing_Impute = Str("mean")
         /\ InList("MissingImpute", tactic["orig"].process_list)
         /\ known # <<>>)
        => (/\ chk.err = "none" /\ out["orig"].err = "none"
            /\ IsNum(m) /\ Mul(m, N(Len(known))) = Sum(known)
            /\ \A r \in Rows(x) :
                   out["orig"].val["x"][r] = IF IsNull(x[r]) THEN m ELSE x[r]
            /\ x = <<N(1), N(2), Null, N(4)>> =>
                   out["orig"].val["x"] = <<N(1), N(2), Num(7, 3), N(4)>>)

\* the worked example: [1, 2, missing, 4] fitted and applied
C9_Witness ==
    /\ chk.call = "fit" /\ chk.err = "none"
    /\ out["orig"].call = "apply" /\ out["orig"].err = "none"
    /\ tactic["orig"].config.row["x"].Missing_Impute = Str("mean")
    /\ df_master["x"] = <<N(1), N(2), Null, N(4)>>
    /\ out["orig"].val["x"] = <<N(1), N(2), Num(7, 3), N(4)>>
    /\ tactic["orig"].reference.row["x"].Missing_Impute = Num(7, 3)

----------------------------------------------------------------------------
(* Claims about check_config_file.                                         *)

\* every configured variable exists in the dataset
NamesExist(cfg, df) == \A v \in DOMAIN cfg.row : v \in DOMAIN df

\* every declared Var_Type matches the dtype of the column
TypesMatch(cfg, df) ==
    \A v \in DOMAIN cfg.row :
        v \in DOMAIN df =>
            \/ cfg.row[v].Var_Type = "numerical" /\ DType(df[v]) = "float64"
            \/ cfg.row[v].Var_Type = "categorical" /\ DType(df[v]) = "object"

\* no categorical variable has Ind_Cap or Ind_Floor enabled
NoCategoricalCapFloor(cfg) ==
    \A v \in DOMAIN cfg.row :
        cfg.row[v].Var_Type = "categorical" =>
            cfg.row[v].Ind_Cap # 1 /\ cfg.row[v].Ind_Floor # 1

\* every imputation token of a numerical variable is mean, median or a
\* numeric literal (or there is none)
TokensWellFormed(cfg) ==
    \A v \in DOMAIN cfg.row :
        cfg.row[v].Var_Type = "numerical" =>
            \/ cfg.row[v].Missing_Impute \in {Str("mean"), Str("median")}
            \/ cfg.row[v].Missing_Impute.k \in {"null", "num", "numstr"}

\* C6 as stated: check_config_file returns 0 exactly when the four
\* conditions hold, and a count above 0 when any of them is violated.
C6_ZeroIffWellFormed ==
    LET cfg == tactic["orig"].config
    IN  (chk.call = "check" /\ chk.err = "none") =>
            (chk.val = 0 <=>
                /\ NamesExist(cfg, df_master)
                /\ TypesMatch(cfg, df_master)
                /\ NoCategoricalCapFloor(cfg)
                /\ TokensWellFormed(cfg))

\* C7 as stated: check_config_file always returns a count and never raises.
C7_NeverRaises == chk.call = "check" => chk.err = "none"

----------------------------------------------------------------------------
(* Claims about MissingImpute without a fill value.                        *)

\* x is in the model, has no Missing_Impute, and the component is a
\* MissingImpute built with the default applicable list
NoImputeGiven ==
    /\ inst.kind = "MissingImpute"
    /\ inst.config.row["x"].Ind_Model = 1
    /\ IsNull(inst.config.row["x"].Missing_Impute)

\* C11 as stated: for an in-model variable with a null Missing_Impute whose
\* fit dataset holds missing values, MissingImpute.fit returns without
\* raising, and a later MissingImpute.apply (default applicable list) on a
\* dataset in which the variable holds missing values raises instead of
\* returning a dataset that still holds them.
C11_FailsAtApply ==
    /\ [][(NoImputeGiven /\ HasNull(df_master["x"]) /\ ret'.call = "fit")
            => ret'.err = "none"]_vars
    /\ [][(/\ NoImputeGiven /\ HasNull(df_master["x"])
           /\ ret.call = "fit" /\ ret'.call = "apply"
           /\ HasNull(df_in'["x"]))
            => ret'.err # "none"]_vars

----------------------------------------------------------------------------
(* Claims about a stage that raises part-way.                              *)

\* the Tactic with only the first k stages of its process list
Prefix(t, k) == [t EXCEPT !.process_list = SubSeq(t.process_list, 1, k)]

\* C12 as stated: when a stage of Tactic.apply raises, the dataset the
\* caller passed is what the stages before it made of it: the raising
\* stage has transformed none of its variables and no later stage has run.
C12_NoPartialSuccess ==
    \A id \in {"orig", "fresh"} :
        (out[id].call = "apply" /\ out[id].err # "none") =>
            \E k \in 0 .. Len(tactic[id].process_list) - 1 :
                \E pre \in {TacticApply(Prefix(tactic[id], k), df_master)} :
                    pre.err = "none" /\ out[id].arg = pre.val.cur

----------------------------------------------------------------------------
(* Claims about add_variables / drop_variables.                            *)

\* the component's own flag of variable v in the table ref
OwnFlag(ref, operation, v) ==
    CASE operation = "Cap" -> ref.row[v].Ind_Cap = 1
      [] operation = "Floor" -> ref.row[v].Ind_Floor = 1
      [] operation = "MissingImpute" -> ~IsNull(ref.row[v].Missing_Impute)
      [] operation = "Woe" -> ref.row[v].Ind_WOE = 1
      [] operation = "Scale" -> ref.row[v].Ind_Scale = 1

\* C13: the component built for the next fit or apply selects a variable
\* exactly when its Ind_Model in the reference table is 1 and the
\* component's own flag is set; add/drop calls set Ind_Model of the named
\* rows and change nothing else; fit leaves the row of a variable that is
\* out of the model as it was; and a successful apply returns the column of
\* such a variable unchanged.
C13_VariableSet ==
    /\ [](\A k \in 1 .. Len(tactic["orig"].process_list) :
            \A v \in DOMAIN tactic["orig"].reference.row :
                LET operation == tactic["orig"].process_list[k]
                    ref == tactic["orig"].reference
                IN  InList(v, Complie(tactic["orig"], operation).apply_list)
                        <=> (ref.row[v].Ind_Model = 1 /\ OwnFlag(ref, operation, v)))
    /\ [][(chk' = chk /\ out' = out) =>
            /\ \E var_list \in VarLists, value \in {0, 1} :
                  tactic'["orig"].reference =
                      SetColumn(tactic["orig"].reference, var_list, "Ind_Model", value)
            /\ \A f \in {"config", "process_list", "target", "woe_reference"} :
                  tactic'["orig"][f] = tactic["orig"][f]]_vars
    /\ [][(chk.call = "new" /\ chk'.call = "fit") =>
            \A v \in DOMAIN tactic["orig"].reference.row :
                tactic["orig"].reference.row[v].Ind_Model # 1 =>
                    tactic'["orig"].reference.row[v] = tactic["orig"].reference.row[v]]_vars
    /\ []((out["orig"].call = "apply" /\ out["orig"].err = "none") =>
            \A v \in DOMAIN tactic["orig"].reference.row :
                tactic["orig"].reference.row[v].Ind_Model # 1 =>
                    /\ v \in DOMAIN out["orig"].val
                    /\ out["orig"].val[v] = df_master[v])

\* x was dropped and c was added before a fit and an apply that both
\* succeeded: c's missing value was filled and x came back as it was
C13_Witness ==
    /\ chk.call = "fit" /\ chk.err = "none"
    /\ out["orig"].call = "apply" /\ out["orig"].err = "none"
    /\ tactic["orig"].config.row["x"].Ind_Model = 1
    /\ tactic["orig"].reference.row["x"].Ind_Model = 0
    /\ tactic["orig"].config.row["c"].Ind_Model = 0
    /\ tactic["orig"].reference.row["c"].Ind_Model = 1
    /\ out["orig"].val["c"] # df_master["c"]
    /\ out["orig"].val["x"] = df_master["x"]
    /\ HasNull(df_master["x"])

----------------------------------------------------------------------------
(* Claims about Woe.apply.                                                 *)

\* the name of the weight-substituted column of variable v
WoeColumn(ref, v) ==
    IF ref.row[v].Var_Type = "numerical" THEN "nwoe_" \o v ELSE "cwoe_" \o v

\* the last stage of the process list is Woe, and apply has returned
WoeApplied ==
    /\ out["orig"].call = "apply" /\ out["orig"].err = "none"
    /\ tactic["orig"].process_list # <<>>
    /\ tactic["orig"].process_list[Len(tactic["orig"].process_list)] = "Woe"

\* C14 as stated: with a WOE reference present, the dataset Woe.apply
\* returns holds, for every variable of its applicable list, the
\* weight-substituted column and not the original column.
C14_WoeSubstitutes ==
    WoeApplied =>
        \A k \in 1 .. Len(Complie(tactic["orig"], "Woe").apply_list) :
            LET v == Complie(tactic["orig"], "Woe").apply_list[k]
            IN  /\ WoeColumn(tactic["orig"].reference, v) \in DOMAIN out["orig"].val
                /\ v \notin DOMAIN out["orig"].val

----------------------------------------------------------------------------
(* Claims about Tactic.apply as a replay.                                  *)

----------------------------------------------------------------------------
(* Claims about Floor.fit.                                                 *)

\* Floor.fit has just returned for the variable x of its list
FloorFitted ==
    /\ inst.kind = "Floor" /\ InList("x", inst.apply_list)
    /\ ret.call = "fit" /\ ret.err = "none"

\* 5 times the 1st percentile of the non-missing values, 0 when that is
\* positive
FiveTimesP1OrZero(c) ==
    LET five == Mul(N(5), Quantile(c, 1, 100))
    IN  IF Gt(five, N(0)) THEN N(0) ELSE five

\* C16 as stated: Floor.fit writes the configured Floor_Value when the
\* config holds one and otherwise min(5 x 1st percentile, 0), a number
\* that is <= 0 for every dataset.
C16_FloorLearnedAlways ==
    LET given == inst.config.row["x"].Floor_Value
        learned == inst.reference.row["x"].Floor_Value
    IN  FloorFitted =>
            IF ~IsNull(given) THEN learned = Float(given)
            ELSE /\ IsNum(learned) /\ ~Gt(learned, N(0))
                 /\ learned = FiveTimesP1OrZero(df_master["x"])

\* C16 as amended: Floor.fit writes the configured Floor_Value when the
\* config holds one; otherwise, when the variable has a non-missing value,
\* min(5 x 1st percentile, 0), which is <= 0; and when every value of the
\* variable is missing the learned floor is missing too.
C16_FloorLearned ==
    LET given == inst.config.row["x"].Floor_Value
        learned == inst.reference.row["x"].Floor_Value
    IN  FloorFitted =>
            IF ~IsNull(given) THEN learned = Float(given)
            ELSE IF NonNull(df_master["x"]) = <<>> THEN IsNull(learned)
            ELSE /\ IsNum(learned) /\ ~Gt(learned, N(0))
                 /\ learned = FiveTimesP1OrZero(df_master["x"])

\* a floor derived from a dataset whose 1st percentile is negative
C16_Witness ==
    /\ FloorFitted
    /\ IsNull(inst.config.row["x"].Floor_Value)
    /\ HasNull(df_master["x"])
    /\ Lt(inst.reference.row["x"].Floor_Value, N(0))

----------------------------------------------------------------------------
(* Claims about the chaining of Tactic.fit.                                *)

\* what the component `operation` learns for variable v of the working
\* copy w, given v's row of the configuration: row is v's row of the
\* merged reference table after fit
LearnedFrom(operation, cfg, row, w, v) ==
    LET given == cfg.row[v]
    IN  CASE operation = "Cap" ->
                row.Cap_Value = IF ~IsNull(given.Cap_Value)
                                THEN Float(given.Cap_Value)
                                ELSE Quantile(w[v], 99, 100)
          [] operation = "Floor" ->
                row.Floor_Value = IF ~IsNull(given.Floor_Value)
                                  THEN Float(given.Floor_Value)
                                  ELSE FiveTimesP1OrZero(w[v])
          [] operation = "MissingImpute" ->
                row.Missing_Impute =
                    IF given.Missing_Impute = Str("mean") THEN Mean(w[v])
                    ELSE IF given.Missing_Impute = Str("mode")
                      THEN Str(Mode(w[v])[1])
                    ELSE IF given.Var_Type = "numerical"
                      THEN Float(given.Missing_Impute)
                    ELSE given.Missing_Impute
          [] operation = "Scale" ->
                /\ row.Min = Min(w[RealVar(cfg, v).val])
                /\ row.Max = Max(w[RealVar(cfg, v).val])

\* C17: after a fit that returned, the merged reference table holds, for
\* every non-Woe component c_k of the process list and every variable of
\* its list, the value c_k learns from the working copy that c_1..c_(k-1),
\* each fitted and then applied in that order, have made of the dataset;
\* the result of Woe is in the WOE reference.
C17_FitChains ==
    LET t == tactic["orig"]
    IN  (chk.call = "fit" /\ chk.err = "none") =>
            \A k \in 1 .. Len(t.process_list) :
                IF t.process_list[k] = "Woe" THEN t.woe_reference.present
                ELSE \E w \in {TacticApply(Prefix(t, k - 1), df_master)} :
                        /\ w.err = "none"
                        /\ \A j \in 1 .. Len(Complie(t, t.process_list[k]).apply_list) :
                              LET v == Complie(t, t.process_list[k]).apply_list[j]
                              IN  LearnedFrom(t.process_list[k], t.config,
                                              t.reference.row[v], w.val.cur, v)

\* a fit of [Scale, Cap] that returned: the cap of x was derived from the
\* scaled column, and the table holds Min, Max and Cap_Value together
C17_Witness ==
    /\ chk.call = "fit" /\ chk.err = "none"
    /\ tactic["orig"].process_list = <<"Scale", "Cap">>
    /\ tactic["orig"].config.row["x"].Ind_Cap = 1
    /\ IsNum(tactic["orig"].reference.row["x"].Min)
    /\ IsNum(tactic["orig"].reference.row["x"].Cap_Value)
    /\ tactic["orig"].reference.row["x"].Cap_Value
           # Quantile(df_master["x"], 99, 100)

----------------------------------------------------------------------------
(* Claims about the survivors of filt_corr.                                *)

\* v survives the greedy elimination of matrix m at threshold t: no
\* earlier variable that itself survives is correlated above t with v
RECURSIVE Survives(_, _, _)
Survives(m, t, v) ==
    ~ \E u \in 1 .. (v - 1) : Survives(m, t, u) /\ m[u][v] > t

\* C18: when filt_corr returns, the variables kept are exactly the greedy
\* survivors; the first variable is kept, no two kept variables are
\* correlated above the threshold, and filt_corr of the returned matrix
\* at the same threshold returns that matrix whole.
C18_GreedySurvivors ==
    fpc = "done" =>
        /\ picked = {v \in Labels : Survives(corr_in, thresh, v)}
        /\ 1 \in picked
        /\ \A u, v \in picked : corr_in[u][v] <= thresh
        /\ Restrict(corr, picked) = FiltCorr(corr_in, thresh)
        /\ FiltCorr(Restrict(corr, picked), thresh) = Restrict(corr, picked)

\* filt_corr has returned {1, 3}: 2 was eliminated by 1, and 3 is kept
\* although it is correlated above the threshold with the eliminated 2
C18_Witness ==
    /\ fpc = "done"
    /\ picked = {1, 3}
    /\ corr_in[1][2] > thresh
    /\ corr_in[2][3] > thresh
    /\ corr_in[1][3] <= thresh

----------------------------------------------------------------------------
(* Claims about a second fit of one Tactic.                                *)

\* the second fit leaves cell (v, column) of the merged reference table
\* as the first fit learned it
Sticky(v, column) ==
    ~IsNull(tactic["orig"].reference.row[v][column]) =>
        tactic'["orig"].reference.row[v][column]
            = tactic["orig"].reference.row[v][column]

\* C19: a second fit of a fitted Tactic on another dataset leaves every
\* learned Cap_Value, Floor_Value and resolved Missing_Impute of the
\* merged reference table as the first fit left it.
C19_LearnedSticky ==
    [][(chk.call = "fit" /\ chk'.call = "refit") =>
          \A v \in {"x", "c"} :
              /\ Sticky(v, "Cap_Value")
              /\ Sticky(v, "Floor_Value")
              /\ Sticky(v, "Missing_Impute")]_vars

====
